---- MODULE Spec2Model ----
(***************************************************************************)
(* A model of src/creative.py: the bit-string superposer, the ladder, the  *)
(* twobit, bell_correlation and the layout.  Programs (QuantumCircuit     *)
(* objects) are sequences of gates; the execution backend is modelled by   *)
(* an exact simulation of x, h, s and cx, and by any sample of counts      *)
(* where a program's probabilities are not rational or the backend is      *)
(* noisy.  Each component has its own specification                        *)
(* over the shared variables; the components it does not use stay idle.    *)
(***************************************************************************)
EXTENDS Integers, Sequences, FiniteSets, TLC

VARIABLES
    \* bitstring_superposer (one call)
    strings,      \* the list passed in: a sequence of bit-strings
    sp_pc,        \* position in the call: "start", "built", "executed", "returned", "IndexError"
    qc,           \* the program built: a sequence of gates
    stats_raw,    \* job.result().get_counts(): backend key -> count
    stats,        \* the mapping returned: key -> <<count, shots>>
    \* ladder (one object)
    ladder_d,     \* self.d
    ladder_qc,    \* self.qc: the rx gates added, as their delta arguments
    ladder_backend, \* backend of the last value() call, "" before any
    ladder_count, \* count of '1' the backend returned to the last value() call
    ladder_ret,   \* what the last value() call returned, the empty sequence before any
    \* twobit (one object)
    twobit_qc,    \* self.qc: the gates of the stored program
    twobit_call,  \* the last call on the object, with what it computed and returned
    twobit_prev,  \* the call before it: its name, its basis and its boolean
    \* layout (one construction, then one method call)
    device_type,  \* what the argument of layout() is: "list", "tuple" or "str"
    device,       \* the argument: <<Lx, Ly>> for a list or a tuple, <<name>> for a str
    lay_pc,       \* position in __init__
    lay_i,        \* iterations done of the loop __init__ is in
    char,         \* the code of the next coupler label
    lay_num,      \* self.num
    pairs,        \* self.pairs: label -> <<n, m>>
    pos,          \* self.pos: node -> <<4x, 4y>>, four times its coordinates
    backend_calls, \* the get_backend calls __init__ has made
    printed,      \* what __init__ has printed
    lay_call,     \* the method called on the layout, its arguments and its result
    \* bell_correlation (one call)
    bell_basis,   \* the basis argument: a string of two characters
    bell_pc,      \* position in the call: "start", "built", "executed", "returned"
    bell_qc,      \* the program built: a sequence of gates
    bell_stats,   \* job.result().get_counts(): backend key -> count
    bell_P        \* the value returned, <<numerator, denominator>>

sp_vars == <<strings, sp_pc, qc, stats_raw, stats>>
ladder_vars == <<ladder_d, ladder_qc, ladder_backend, ladder_count, ladder_ret>>
twobit_vars == <<twobit_qc, twobit_call, twobit_prev>>
layout_vars ==
    <<device_type, device, lay_pc, lay_i, char, lay_num, pairs, pos,
      backend_calls, printed, lay_call>>
bell_vars == <<bell_basis, bell_pc, bell_qc, bell_stats, bell_P>>
vars == <<sp_vars, ladder_vars, twobit_vars, layout_vars, bell_vars>>

\* ------------------------------------------------------------------ bounds
\* longest bit-string passed to bitstring_superposer
MaxNum == 2
\* most list elements after the first two
MaxExtra == 2
\* shots = 20 * ShotsUnit: a multiple of 4 and of 10, so that the noiseless
\* probabilities of the programs below and the thresholds 0.1 and 0.9 are
\* exact fractions count/shots
ShotsUnit == 1
Shots == 20 * ShotsUnit
\* most add calls on one ladder, and the largest |delta| added
MaxAdds == 2
MaxDelta == 3
\* largest side of a grid passed to layout()
MaxL == 3
\* largest count of one key of the raw counts passed to calculate_probs
MaxCount == 2

\* ------------------------------------------------------------------ helpers
Max(a, b) == IF a >= b THEN a ELSE b

RECURSIVE Pow2(_)
Pow2(n) == IF n = 0 THEN 1 ELSE 2 * Pow2(n - 1)

\* python's string[::-1]
Reverse(s) == [i \in 1..Len(s) |-> s[Len(s) + 1 - i]]

\* range(n) as a sequence: <<0, ..., n-1>>
Range(n) == [i \in 1..n |-> i - 1]

\* python's s[bit] on a string (0-based)
At(s, bit) == s[bit + 1]

\* bit-strings are sequences over {0, 1}, standing for the characters '0' and '1'
BitStrings(n) == [1..n -> {0, 1}]

\* ------------------------------------------------------------------ backend
\* The noiseless backend: an exact simulation of x, h, s and cx on num qubits.
\* A state is [amp |-> basis state -> <<re, im>>, h |-> k]: the amplitude of
\* a basis state b is (re + i*im) / sqrt(2)^k, and b[q+1] is the bit of qubit q.
InitState(num) ==
    [amp |-> [b \in BitStrings(num) |->
                 IF \A i \in 1..num : b[i] = 0 THEN <<1, 0>> ELSE <<0, 0>>],
     h |-> 0]

Flip(b, q) == [b EXCEPT ![q + 1] = 1 - b[q + 1]]

ApplyGate(st, g) ==
    CASE g[1] = "x" ->
           [st EXCEPT !.amp = [b \in DOMAIN st.amp |-> st.amp[Flip(b, g[2])]]]
      [] g[1] = "h" ->
           [amp |-> [b \in DOMAIN st.amp |->
                        LET zero == st.amp[[b EXCEPT ![g[2] + 1] = 0]]
                            one == st.amp[[b EXCEPT ![g[2] + 1] = 1]]
                            sign == IF b[g[2] + 1] = 1 THEN -1 ELSE 1
                        IN  <<zero[1] + sign * one[1], zero[2] + sign * one[2]>>],
            h |-> st.h + 1]
      [] g[1] = "s" ->
           [st EXCEPT !.amp = [b \in DOMAIN st.amp |->
                        IF b[g[2] + 1] = 1
                        THEN <<-st.amp[b][2], st.amp[b][1]>>
                        ELSE st.amp[b]]]
      [] g[1] = "cx" ->
           [st EXCEPT !.amp = [b \in DOMAIN st.amp |->
                        st.amp[IF b[g[2] + 1] = 1 THEN Flip(b, g[3]) ELSE b]]]

RECURSIVE Run(_, _)
Run(st, gates) ==
    IF gates = <<>> THEN st ELSE Run(ApplyGate(st, Head(gates)), Tail(gates))

\* |amplitude|^2 * 2^k
Weight(st, b) == st.amp[b][1] * st.amp[b][1] + st.amp[b][2] * st.amp[b][2]

\* execute(...).result().get_counts() on the noiseless backend: the keys are the
\* outcomes of non-zero probability, written with qubit 0 rightmost, and each
\* count is its probability times shots
get_counts(gates, num, shots) ==
    LET st == Run(InitState(num), gates)
        seen == {b \in DOMAIN st.amp : Weight(st, b) # 0}
    IN  [key \in {Reverse(b) : b \in seen} |->
            (shots * Weight(st, Reverse(key))) \div Pow2(st.h)]

\* ------------------------------------------------------- bitstring_superposer
\* lines 170-172: the length of the longest string
NumOf(strs) ==
    LET RECURSIVE Longest(_, _)
        Longest(i, acc) ==
            IF i > Len(strs) THEN acc ELSE Longest(i + 1, Max(Len(strs[i]), acc))
    IN  Longest(1, 0)

\* lines 173-174: the loop assigns the padded string to its loop variable
\* only, so the list is left as it was
pad(strs, num) == strs

\* line 180 with >= for ==
AllStrings_AtLeast(strs, num) == Len(strs) >= Pow2(num)

\* line 180
AllStrings(strs, num) == Len(strs) = Pow2(num)

\* lines 186 and 189 read strings[0][bit] and strings[1][bit] for every bit in
\* range(num): an IndexError when one of the two is shorter than num
RaisesIndexError(strs, num) ==
    /\ ~AllStrings(strs, num)
    /\ \E bit \in 0..(num - 1) : bit >= Len(strs[1]) \/ bit >= Len(strs[2])

\* lines 181-182
UniformProgram(num) == [i \in 1..num |-> <<"h", i - 1>>]

\* lines 184-197
PairProgram(strs, num) ==
    LET a == strs[1]
        b == strs[2]
        same == SelectSeq(Range(num),
                    LAMBDA bit : At(a, bit) = At(b, bit) /\ At(a, bit) = 1)
        diff == SelectSeq(Range(num), LAMBDA bit : At(a, bit) # At(b, bit))
        ones == SelectSeq(diff, LAMBDA bit : At(a, bit) = 1)
    IN  [i \in 1..Len(same) |-> <<"x", same[i]>>]
        \o (IF diff # <<>>
            THEN <<<<"h", diff[1]>>>>
                 \o [i \in 1..(Len(diff) - 1) |-> <<"cx", diff[1], diff[i + 1]>>]
                 \o [i \in 1..Len(ones) |-> <<"x", ones[i]>>]
            ELSE <<>>)

\* lines 169-197: the program for one list of strings
BuildProgram(strs) ==
    LET num == NumOf(strs)
        padded == pad(strs, num)
    IN  IF AllStrings(padded, num) THEN UniformProgram(num)
        ELSE PairProgram(padded, num)

\* lines 210-215 without the reversal of the keys
Fractions_NoReverse(raw, shots) == [key \in DOMAIN raw |-> <<raw[key], shots>>]

\* lines 210-215: reverse each key and divide each count by shots
Fractions(raw, shots) ==
    [key \in {Reverse(k) : k \in DOMAIN raw} |-> <<raw[Reverse(key)], shots>>]

\* the lists the model passes in: any two bit-strings of 1..MaxNum bits, then
\* up to MaxExtra further strings.  The code reads only the length of a
\* string after the second, so each length is represented by its all-zero string.
AllBitStrings == UNION {BitStrings(n) : n \in 1..MaxNum}
ExtraStrings == {[i \in 1..n |-> 0] : n \in 1..MaxNum}
InputLists ==
    {<<a, b>> \o tail :
        a \in AllBitStrings, b \in AllBitStrings,
        tail \in UNION {[1..k -> ExtraStrings] : k \in 0..MaxExtra}}

SuperposerIdle ==
    /\ strings = <<>>
    /\ sp_pc = "idle"
    /\ qc = <<>>
    /\ stats_raw = <<>>
    /\ stats = <<>>

InitSuperposer ==
    /\ strings \in InputLists
    /\ sp_pc = "start"
    /\ qc = <<>>
    /\ stats_raw = <<>>
    /\ stats = <<>>

\* lines 166-202: build the program, or raise IndexError
sp_build ==
    /\ sp_pc = "start"
    /\ IF RaisesIndexError(pad(strings, NumOf(strings)), NumOf(strings))
       THEN /\ sp_pc' = "IndexError"
            /\ qc' = qc
       ELSE /\ sp_pc' = "built"
            /\ qc' = BuildProgram(strings)
    /\ UNCHANGED <<strings, stats_raw, stats>>

\* lines 204-208: run the program on the noiseless backend
sp_execute ==
    /\ sp_pc = "built"
    /\ stats_raw' = get_counts(qc, NumOf(strings), Shots)
    /\ sp_pc' = "executed"
    /\ UNCHANGED <<strings, qc, stats>>

\* lines 210-221: the mapping returned
sp_return ==
    /\ sp_pc = "executed"
    /\ stats' = Fractions(stats_raw, Shots)
    /\ sp_pc' = "returned"
    /\ UNCHANGED <<strings, qc, stats_raw>>

LadderIdle ==
    /\ ladder_d = 0
    /\ ladder_qc = <<>>
    /\ ladder_backend = ""
    /\ ladder_count = 0
    /\ ladder_ret = <<>>

\* a call record of the twobit: the call, its arguments, and for value() the
\* count of '1' the backend returned, p as it was drawn from, and the result
NoCall ==
    [op |-> "none", basis |-> "", b |-> "None", backend |-> "", mitigate |-> FALSE,
     count |-> 0, p |-> <<0, 1>>]

\* the part of a call record that twobit_prev keeps
Brief(call) == [op |-> call.op, basis |-> call.basis, b |-> call.b]

TwobitIdle ==
    /\ twobit_qc = <<>>
    /\ twobit_call = NoCall
    /\ twobit_prev = Brief(NoCall)

LayoutIdle ==
    /\ device_type = ""
    /\ device = <<>>
    /\ lay_pc = "idle"
    /\ lay_i = 0
    /\ char = 0
    /\ lay_num = 0
    /\ pairs = <<>>
    /\ pos = <<>>
    /\ backend_calls = 0
    /\ printed = ""
    /\ lay_call = [op |-> "none"]

BellIdle ==
    /\ bell_basis = <<>>
    /\ bell_pc = "idle"
    /\ bell_qc = <<>>
    /\ bell_stats = <<>>
    /\ bell_P = <<>>

NextSuperposer ==
    \/ sp_build /\ UNCHANGED <<ladder_vars, twobit_vars, layout_vars, bell_vars>>
    \/ sp_execute /\ UNCHANGED <<ladder_vars, twobit_vars, layout_vars, bell_vars>>
    \/ sp_return /\ UNCHANGED <<ladder_vars, twobit_vars, layout_vars, bell_vars>>

StartSuperposer == InitSuperposer /\ LadderIdle /\ TwobitIdle /\ LayoutIdle /\ BellIdle

SpecSuperposer == StartSuperposer /\ [][NextSuperposer]_vars

\* ------------------------------------------- claims on bitstring_superposer
EqualLength == \A i \in 1..Len(strings) : Len(strings[i]) = Len(strings[1])

\* python's '0'*(num-len(string)) + string
LeftPad(s, num) == [i \in 1..(num - Len(s)) |-> 0] \o s

\* C1: for two different bit-strings a, b of the same length, the call
\* completes and the mapping returned has exactly the keys a and b, each with
\* the fraction 1/2.
C1_PairSupport ==
    (Len(strings) = 2 /\ EqualLength /\ strings[1] # strings[2]) =>
        /\ sp_pc # "IndexError"
        /\ sp_pc = "returned" =>
              /\ DOMAIN stats = {strings[1], strings[2]}
              /\ \A key \in DOMAIN stats : 2 * stats[key][1] = stats[key][2]

\* a returned call on two different strings of MaxNum bits that differ in
\* their first bit only
C1_Witness ==
    /\ sp_pc = "returned"
    /\ Len(strings) = 2 /\ EqualLength /\ Len(strings[1]) = MaxNum
    /\ strings[1][1] # strings[2][1]
    /\ \A i \in 2..MaxNum : strings[1][i] = strings[2][i]
    /\ stats[strings[1]][1] > 0

\* C2: for a list [a, a] the mapping returned has the single key a with the
\* fraction 1.
C2_SinglePoint ==
    (Len(strings) = 2 /\ strings[1] = strings[2] /\ sp_pc = "returned") =>
        /\ DOMAIN stats = {strings[1]}
        /\ stats[strings[1]] = <<Shots, Shots>>

\* C3: when the two strings differ in length the shorter is left-padded with
\* '0', so the call completes and returns the mapping of the padded pair.
C3_PaddedPair ==
    (Len(strings) = 2 /\ Len(strings[1]) # Len(strings[2])) =>
        /\ sp_pc # "IndexError"
        /\ sp_pc = "returned" =>
              DOMAIN stats = {LeftPad(strings[1], NumOf(strings)),
                              LeftPad(strings[2], NumOf(strings))}

Moduli == {1, 2, 3}

Abs(n) == IF n < 0 THEN -n ELSE n

\* 2*cos(pi/d)
TwoCosUnit(d) == CASE d = 1 -> -2 [] d = 2 -> 0 [] d = 3 -> 1

\* 2*cos(pi*K/d), by cos((n+1)t) = 2 cos(t) cos(n t) - cos((n-1)t)
RECURSIVE TwoCos(_, _)
TwoCos(K, d) ==
    IF K < 0 THEN TwoCos(-K, d)
    ELSE IF K = 0 THEN 2
    ELSE IF K = 1 THEN TwoCosUnit(d)
    ELSE TwoCosUnit(d) * TwoCos(K - 1, d) - TwoCos(K - 2, d)

RECURSIVE Sum(_)
Sum(s) == IF s = <<>> THEN 0 ELSE Head(s) + Sum(Tail(s))

\* The noiseless backend on the ladder's program: the gates rx(pi*delta/d) of
\* ladder_qc turn the qubit about one axis, so their angles add up to
\* theta = pi*K/d with K the sum of the deltas, and the probability of '1' is
\* sin^2(theta/2) = (2 - 2cos(theta))/4; the count is that times shots.
NoiselessOnes(gates, d, shots) == (shots * (2 - TwoCos(Sum(gates), d))) \div 4

\* lines 54-57 without the division by shots
LadderP_raw(count, shots) == <<count, 1>>

\* lines 54-57 reading the count of '0' for that of '1'
LadderP_zeros(count, shots) == <<shots - count, shots>>

\* lines 54-57: p as the fraction <<numerator, denominator>>
LadderP(count, shots) == <<count, shots>>

\* Whether x = 2*asin(sqrt(p))*d/pi lies below (-1), at (0) or above (1) the
\* half-integer k - 1/2, for p = <<c, s>> in [0, 1].  asin is at most pi/2, so
\* x stays below every k - 1/2 > d.  Otherwise, asin and sqrt being monotone,
\* x >= k - 1/2 iff p >= sin^2(j*pi/(4d)) with j = 2k - 1, that is iff
\* 1 - 2p <= cos(j*pi/(2d)); the cosine has the sign of d - j and the square
\* (2 + 2cos(j*pi/d))/4, which decides the comparison in integers.
Sign(n) == IF n < 0 THEN -1 ELSE IF n = 0 THEN 0 ELSE 1

AgainstHalf(p, k, d) ==
    LET j == 2 * k - 1
        R == p[2] - 2 * p[1]                 \* (1 - 2p) * s
        lhs == 4 * R * R                     \* (1 - 2p)^2 * 4 s^2
        rhs == (2 + TwoCos(j, d)) * p[2] * p[2]  \* cos^2 * 4 s^2
        sr == Sign(R)
        sc == Sign(d - j)
    IN  IF j > 2 * d THEN -1
        ELSE IF sr # sc THEN (IF sr < sc THEN 1 ELSE -1)
        ELSE IF sr = 0 THEN 0
        ELSE IF sr > 0 THEN Sign(rhs - lhs)
        ELSE Sign(lhs - rhs)

\* line 58-59: int(round(2*arcsin(sqrt(p))*d/pi)), as the set of the values it
\* can return.  The number of half-integers below x is the nearest integer;
\* when x is a half-integer in exact arithmetic the floating-point x lies at
\* or next to it and round returns either neighbour.  sqrt of p > 1 lies
\* outside the domain of arcsin, which gives nan, and round(nan) raises
\* ValueError: the model returns the marker ValueError, no integer of 0..d.
ValueError == -1

Rounded(p, d) ==
    IF p[1] > p[2] THEN {ValueError}
    ELSE LET below == {k \in 1..(2 * d) : AgainstHalf(p, k, d) = 1}
             at == {k \in 1..(2 * d) : AgainstHalf(p, k, d) = 0}
         IN  IF at = {} THEN {Cardinality(below)}
             ELSE {Cardinality(below), Cardinality(below) + 1}

Backends == {"noiseless", "noisy"}

\* lines 50-53: the count of '1' a backend can return for the program
LadderCounts(backend, gates, d, shots) ==
    IF backend = "noiseless" THEN {NoiselessOnes(gates, d, shots)}
    ELSE 0..shots

\* lines 32-37
InitLadder ==
    /\ ladder_d \in Moduli
    /\ ladder_qc = <<>>
    /\ ladder_backend = ""
    /\ ladder_count = 0
    /\ ladder_ret = <<>>

\* lines 39-43
ladder_add(delta) ==
    /\ Len(ladder_qc) < MaxAdds
    /\ ladder_qc' = Append(ladder_qc, delta)
    /\ ladder_backend' = ""
    /\ ladder_count' = 0
    /\ ladder_ret' = <<>>
    /\ UNCHANGED ladder_d

\* lines 45-59
ladder_value(backend) ==
    /\ \E count \in LadderCounts(backend, ladder_qc, ladder_d, Shots) :
          /\ ladder_count' = count
          /\ ladder_ret' \in Rounded(LadderP(count, Shots), ladder_d)
    /\ ladder_backend' = backend
    /\ UNCHANGED <<ladder_d, ladder_qc>>

NextLadder ==
    \/ \E delta \in (-MaxDelta)..MaxDelta :
          ladder_add(delta) /\ UNCHANGED <<sp_vars, twobit_vars, layout_vars, bell_vars>>
    \/ \E backend \in Backends :
          ladder_value(backend) /\ UNCHANGED <<sp_vars, twobit_vars, layout_vars, bell_vars>>

StartLadder == InitLadder /\ SuperposerIdle /\ TwobitIdle /\ LayoutIdle /\ BellIdle

SpecLadder == StartLadder /\ [][NextLadder]_vars

\* --------------------------------------------------------- claims on ladder
\* the value the claim gives: K folded into 0..d, reflecting at 0 and at d
Reflected(K, d) ==
    LET m == Abs(K) % (2 * d) IN IF m <= d THEN m ELSE 2 * d - m

\* C6: on the noiseless backend value() returns the sum of the deltas added,
\* reflected between 0 and d: k after one add(k) with 0 <= k <= d, and 0 after
\* add(d), add(d).
C6_RoundTrip ==
    ladder_backend = "noiseless" =>
        /\ ladder_ret = Reflected(Sum(ladder_qc), ladder_d)
        /\ (Len(ladder_qc) = 1 /\ ladder_qc[1] \in 0..ladder_d) =>
              ladder_ret = ladder_qc[1]
        /\ ladder_qc = <<ladder_d, ladder_d>> => ladder_ret = 0

\* value() on the noiseless backend after add(d), add(d) on a ladder of d = 3
C6_Witness ==
    /\ ladder_backend = "noiseless"
    /\ ladder_d = 3
    /\ ladder_qc = <<3, 3>>
    /\ ladder_ret = 0

\* C7: whatever count the backend returns, value() returns an integer of 0..d.
C7_ValueInRange ==
    ladder_backend # "" => ladder_ret \in 0..ladder_d

\* value() on a count that is neither 0 nor shots, after adds of both signs
C7_Witness ==
    /\ ladder_backend = "noisy"
    /\ ladder_count \in 1..(Shots - 1)
    /\ Len(ladder_qc) = 2 /\ ladder_qc[1] < 0 /\ ladder_qc[2] > 0
    /\ ladder_ret = ladder_d

\* ------------------------------------------------------------------- twobit
\* lines 76-86: the program prepare({basis: b}) stores
PrepareProgram(basis, b) ==
    CASE basis = "Y" -> <<<<"h", 0>>, <<"s", 0>>>>
      [] basis = "X" -> (IF b = TRUE THEN <<<<"x", 0>>>> ELSE <<>>) \o <<<<"h", 0>>>>
      [] basis = "Z" -> (IF b = TRUE THEN <<<<"x", 0>>>> ELSE <<>>)
      [] OTHER -> <<>>

\* lines 95-98 without the basis change for 'X'
MeasuredProgram_NoBasisChange(gates, basis) == gates

\* lines 95-98: the program value(basis) runs, up to its measurement
MeasuredProgram(gates, basis) ==
    IF basis = "X" THEN Append(gates, <<"h", 0>>) ELSE gates

\* the mapping of counts that holds ones times '1' and the rest '0'
CountsOf(ones, shots) ==
    [key \in {<<bit>> : bit \in {b \in {0, 1} :
                                    IF b = 1 THEN ones > 0 ELSE ones < shots}} |->
        IF key[1] = 1 THEN ones ELSE shots - ones]

\* lines 99-100: what a backend can return for the program
TwobitCounts(backend, gates, shots) ==
    IF backend = "noiseless" THEN {get_counts(gates, 1, shots)}
    ELSE {CountsOf(ones, shots) : ones \in 0..shots}

\* lines 101-104: p as the fraction <<numerator, denominator>>
TwobitP(counts, shots) ==
    IF <<1>> \in DOMAIN counts THEN <<counts[<<1>>], shots>> ELSE <<0, 1>>

\* lines 106-109 with <= and >= for < and >
mitigate_inclusive(p) ==
    IF 10 * p[1] <= p[2] THEN <<0, 1>>
    ELSE IF 10 * p[1] >= 9 * p[2] THEN <<1, 1>>
    ELSE p

\* lines 106-109: p < 0.1 gives 0, p > 0.9 gives 1
mitigate(p) ==
    IF 10 * p[1] < p[2] THEN <<0, 1>>
    ELSE IF 10 * p[1] > 9 * p[2] THEN <<1, 1>>
    ELSE p

\* line 110: the values p > random.random() can take, random.random() being
\* any number of [0, 1)
Draws(p) == {v \in BOOLEAN : IF v THEN p[1] > 0 ELSE p[1] < p[2]}

\* line 111 with the basis fixed to 'Z'
Reprepare_Z(basis, measured_value) == PrepareProgram("Z", measured_value)

\* line 111: self.prepare({basis: measured_value})
Reprepare(basis, measured_value) == PrepareProgram(basis, measured_value)

\* lines 95-98: self.qc once value(basis) has added its measurement to it
Measured(gates, basis) ==
    MeasuredProgram(gates, basis) \o <<<<"barrier">>, <<"measure">>>>

\* prepare without line 76: the gates are added to the program stored
NewCircuit_Kept(old) == old

\* line 76: self.qc = QuantumCircuit(self.qr, self.cr), whatever self.qc was
NewCircuit(old) == <<>>

\* lines 65-70
InitTwobit ==
    /\ twobit_qc = PrepareProgram("Y", "None")
    /\ twobit_call = [NoCall EXCEPT !.op = "init"]
    /\ twobit_prev = Brief(NoCall)

\* lines 72-86
twobit_prepare(basis, b) ==
    /\ twobit_qc' = NewCircuit(twobit_qc) \o PrepareProgram(basis, b)
    /\ twobit_call' = [NoCall EXCEPT !.op = "prepare", !.basis = basis, !.b = b]
    /\ twobit_prev' = Brief(twobit_call)

\* lines 88-113
twobit_value(basis, backend, mit) ==
    \E counts \in TwobitCounts(backend, MeasuredProgram(twobit_qc, basis), Shots) :
        LET raw == TwobitP(counts, Shots)
            p == IF mit THEN mitigate(raw) ELSE raw
        IN  \E measured_value \in Draws(p) :
              /\ twobit_qc' = NewCircuit(Measured(twobit_qc, basis))
                                \o Reprepare(basis, measured_value)
              /\ twobit_call' =
                    [op |-> "value", basis |-> basis, b |-> measured_value,
                     backend |-> backend, mitigate |-> mit,
                     count |-> raw[1], p |-> p]
              /\ twobit_prev' = Brief(twobit_call)

NextTwobit ==
    \/ \E basis \in {"X", "Z"}, b \in BOOLEAN :
          twobit_prepare(basis, b) /\ UNCHANGED <<sp_vars, ladder_vars, layout_vars, bell_vars>>
    \/ twobit_prepare("Y", "None") /\ UNCHANGED <<sp_vars, ladder_vars, layout_vars, bell_vars>>
    \/ \E basis \in {"X", "Z"}, backend \in Backends, mit \in BOOLEAN :
          twobit_value(basis, backend, mit)
          /\ UNCHANGED <<sp_vars, ladder_vars, layout_vars, bell_vars>>

StartTwobit == InitTwobit /\ SuperposerIdle /\ LadderIdle /\ LayoutIdle /\ BellIdle

SpecTwobit == StartTwobit /\ [][NextTwobit]_vars

\* --------------------------------------------------------- claims on twobit
Other(basis) == IF basis = "X" THEN "Z" ELSE "X"

\* the step value(basis) on the noiseless backend that returns v
ValueReturns(basis, v) ==
    /\ \E mit \in BOOLEAN : twobit_value(basis, "noiseless", mit)
    /\ twobit_call'.b = v

\* C8: on the noiseless backend, value(basis) right after prepare({basis: b})
\* draws from p = 1 for b = True and p = 0 for b = False and returns b, while
\* value of the other basis draws from p = 1/2; and after prepare({basis: b})
\* the value of the other basis can return True and can return False.
C8_Complementarity ==
    /\ (/\ twobit_call.op = "value" /\ twobit_call.backend = "noiseless"
        /\ twobit_prev.op = "prepare" /\ twobit_prev.basis \in {"X", "Z"}) =>
          IF twobit_call.basis = twobit_prev.basis
          THEN /\ twobit_call.p[1] = (IF twobit_prev.b THEN twobit_call.p[2] ELSE 0)
               /\ twobit_call.b = twobit_prev.b
          ELSE 2 * twobit_call.p[1] = twobit_call.p[2]
    /\ (twobit_call.op = "prepare" /\ twobit_call.basis \in {"X", "Z"}) =>
          \A v \in BOOLEAN : ENABLED ValueReturns(Other(twobit_call.basis), v)

\* value('X') on the noiseless backend returned False right after prepare({'Z': True})
C8_Witness ==
    /\ twobit_call.op = "value" /\ twobit_call.backend = "noiseless"
    /\ twobit_call.basis = "X" /\ twobit_call.b = FALSE
    /\ twobit_prev.op = "prepare" /\ twobit_prev.basis = "Z" /\ twobit_prev.b = TRUE

\* C9: a value(basis) call on the noiseless backend with mitigate=True that
\* directly follows a value(basis) call of the same basis returns what that
\* call returned.
C9_SameBasisAgain ==
    [][(/\ twobit_call.op = "value"
        /\ twobit_call'.op = "value"
        /\ twobit_prev' = Brief(twobit_call)
        /\ twobit_call'.basis = twobit_call.basis
        /\ twobit_call'.backend = "noiseless"
        /\ twobit_call'.mitigate)
       => twobit_call'.b = twobit_call.b]_vars

\* value('X') returned True from a noisy count, and value('X') on the noiseless
\* backend with mitigate=True followed it and returned True
C9_Witness ==
    /\ twobit_call.op = "value" /\ twobit_call.backend = "noiseless"
    /\ twobit_call.mitigate /\ twobit_call.basis = "X" /\ twobit_call.b = TRUE
    /\ twobit_prev.op = "value" /\ twobit_prev.basis = "X" /\ twobit_prev.b = TRUE

\* C10: with mitigate=True, a p = count/shots below 0.1 is drawn from as 0, one
\* above 0.9 as 1, and any other (0.1 and 0.9 themselves too) unchanged; and
\* mitigating the mitigated p again leaves it as it is.
C10_Mitigation ==
    (twobit_call.op = "value" /\ twobit_call.mitigate) =>
        LET count == twobit_call.count
            p == twobit_call.p
        IN  /\ 10 * count < Shots => p[1] = 0
            /\ 10 * count > 9 * Shots => p[1] = p[2]
            /\ (10 * count >= Shots /\ 10 * count <= 9 * Shots) =>
                  p[1] * Shots = count * p[2]
            /\ mitigate(p) = p

\* a mitigated value() call on a count of exactly shots/10
C10_Witness ==
    /\ twobit_call.op = "value" /\ twobit_call.mitigate
    /\ 10 * twobit_call.count = Shots
    /\ twobit_call.p = <<twobit_call.count, Shots>>

\* the basis and the boolean of the most recent call: prepare's argument,
\* value's basis and what it returned, 'Y' and None after the constructor
LastBasis == IF twobit_call.op = "init" THEN "Y" ELSE twobit_call.basis
LastBoolean == twobit_call.b

\* on the noiseless backend, measuring the stored program in the basis gives
\* the boolean on every shot
CommittedIn(basis, boolean) ==
    get_counts(MeasuredProgram(twobit_qc, basis), 1, Shots) =
        CountsOf(IF boolean THEN Shots ELSE 0, Shots)

\* on the noiseless backend, measuring the stored program in the basis gives
\* each outcome on half of the shots
RandomIn(basis) ==
    get_counts(MeasuredProgram(twobit_qc, basis), 1, Shots) =
        CountsOf(Shots \div 2, Shots)

\* C15: after any sequence of prepare and value calls the stored program is
\* the preparation of the most recent call alone, with no measurement and no
\* gate of an earlier call in it, and the twobit is in the one configuration
\* that call names: Random (random in both bases) after 'Y', committed to b in
\* X and random in Z after X, committed to b in Z and random in X after Z;
\* never committed in both bases.
C15_OneConfiguration ==
    /\ twobit_qc = PrepareProgram(LastBasis, LastBoolean)
    /\ \A i \in 1..Len(twobit_qc) : twobit_qc[i][1] \notin {"barrier", "measure"}
    /\ LastBasis = "Y" => RandomIn("X") /\ RandomIn("Z")
    /\ LastBasis = "X" => CommittedIn("X", LastBoolean) /\ RandomIn("Z")
    /\ LastBasis = "Z" => CommittedIn("Z", LastBoolean) /\ RandomIn("X")
    /\ ~\E bx \in BOOLEAN, bz \in BOOLEAN : CommittedIn("X", bx) /\ CommittedIn("Z", bz)

\* value('Z') returned after a call that had committed the twobit in X to the
\* other boolean
C15_Witness ==
    /\ twobit_call.op = "value" /\ twobit_call.basis = "Z"
    /\ twobit_prev.op \in {"prepare", "value"} /\ twobit_prev.basis = "X"
    /\ twobit_prev.b # twobit_call.b
    /\ CommittedIn("Z", twobit_call.b)

\* --------------------------------------------------------- bell_correlation
\* the characters of the basis argument
BasisChars == {"X", "Z"}

\* lines 134-136: the basis changes, for j = 0 and then j = 1
BasisChanges(basis) ==
    (IF basis[1] = "X" THEN <<<<"h", 0>>>> ELSE <<>>)
    \o (IF basis[2] = "X" THEN <<<<"h", 1>>>> ELSE <<>>)

\* lines 125-139 without line 130
BellProgram_NoFixed(basis) ==
    <<<<"h", 0>>, <<"cx", 0, 1>>, <<"ry", 1, 1, 4>>>>
    \o BasisChanges(basis) \o <<<<"barrier">>, <<"measure">>>>

\* lines 125-139: the program; <<"ry", q, 1, 4>> is ry(pi*1/4) on qubit q
BellProgram(basis) ==
    <<<<"h", 0>>, <<"cx", 0, 1>>, <<"ry", 1, 1, 4>>, <<"h", 1>>>>
    \o BasisChanges(basis) \o <<<<"barrier">>, <<"measure">>>>

\* lines 141-142: what a backend can return for two qubits.  The
\* probabilities of this program are not rational (cos(pi/8) enters), so the
\* counts are those of any sample: the keys are the outcomes that occurred.
BellCounts(shots) ==
    {LET c == (<<0, 0>> :> n[1]) @@ (<<0, 1>> :> n[2]) @@ (<<1, 0>> :> n[3])
              @@ (<<1, 1>> :> shots - n[1] - n[2] - n[3])
     IN  [key \in {k \in DOMAIN c : c[k] > 0} |-> c[key]] :
        n \in {nn \in (0..shots) \X (0..shots) \X (0..shots) :
                  nn[1] + nn[2] + nn[3] <= shots}}

\* lines 144-148: the counts of '00' and '11' over shots
Agreement(counts, shots) ==
    LET of(key) == IF key \in DOMAIN counts THEN counts[key] ELSE 0
    IN  <<of(<<0, 0>>) + of(<<1, 1>>), shots>>

InitBell ==
    /\ bell_basis \in BasisChars \X BasisChars
    /\ bell_pc = "start"
    /\ bell_qc = <<>>
    /\ bell_stats = <<>>
    /\ bell_P = <<>>

\* lines 123-139
bell_build ==
    /\ bell_pc = "start"
    /\ bell_qc' = BellProgram(bell_basis)
    /\ bell_pc' = "built"
    /\ UNCHANGED <<bell_basis, bell_stats, bell_P>>

\* lines 141-142
bell_execute ==
    /\ bell_pc = "built"
    /\ bell_stats' \in BellCounts(Shots)
    /\ bell_pc' = "executed"
    /\ UNCHANGED <<bell_basis, bell_qc, bell_P>>

\* lines 144-150
bell_return ==
    /\ bell_pc = "executed"
    /\ bell_P' = Agreement(bell_stats, Shots)
    /\ bell_pc' = "returned"
    /\ UNCHANGED <<bell_basis, bell_qc, bell_stats>>

NextBell ==
    \/ bell_build /\ UNCHANGED <<sp_vars, ladder_vars, twobit_vars, layout_vars>>
    \/ bell_execute /\ UNCHANGED <<sp_vars, ladder_vars, twobit_vars, layout_vars>>
    \/ bell_return /\ UNCHANGED <<sp_vars, ladder_vars, twobit_vars, layout_vars>>

StartBell == InitBell /\ SuperposerIdle /\ LadderIdle /\ TwobitIdle /\ LayoutIdle

SpecBell == StartBell /\ [][NextBell]_vars

\* ------------------------------------------------- claims on bell_correlation
\* the operations of a program between its ry gate and its barrier
RECURSIVE AfterRotation(_)
AfterRotation(gates) ==
    IF gates = <<>> THEN <<>>
    ELSE IF Head(gates)[1] = "ry"
    THEN SelectSeq(Tail(gates), LAMBDA g : g[1] \notin {"barrier", "measure"})
    ELSE AfterRotation(Tail(gates))

\* C14 as claimed: the program is h on 0, cx from 0 onto 1, ry(pi/4) on 1, then
\* h on element j only where basis[j] is 'X', then the measurement of both; for
\* 'ZZ' nothing lies between the rotation and the measurement.
C14_ProgramExact ==
    bell_pc \in {"built", "executed", "returned"} =>
        /\ bell_qc = <<<<"h", 0>>, <<"cx", 0, 1>>, <<"ry", 1, 1, 4>>>>
                       \o (IF bell_basis[1] = "X" THEN <<<<"h", 0>>>> ELSE <<>>)
                       \o (IF bell_basis[2] = "X" THEN <<<<"h", 1>>>> ELSE <<>>)
                       \o <<<<"barrier">>, <<"measure">>>>
        /\ bell_basis = <<"Z", "Z">> => AfterRotation(bell_qc) = <<>>

\* C14: the program is h on 0, cx from 0 onto 1, ry(pi/4) on 1, an h on 1 for
\* every basis, then h on element j only where basis[j] is 'X', then the
\* measurement of both; for 'ZZ' the h on 1 alone lies between the rotation
\* and the measurement.
C14_ProgramWithFixedChange ==
    bell_pc \in {"built", "executed", "returned"} =>
        /\ bell_qc = <<<<"h", 0>>, <<"cx", 0, 1>>, <<"ry", 1, 1, 4>>, <<"h", 1>>>>
                       \o (IF bell_basis[1] = "X" THEN <<<<"h", 0>>>> ELSE <<>>)
                       \o (IF bell_basis[2] = "X" THEN <<<<"h", 1>>>> ELSE <<>>)
                       \o <<<<"barrier">>, <<"measure">>>>
        /\ bell_basis = <<"Z", "Z">> => AfterRotation(bell_qc) = <<<<"h", 1>>>>

\* a call with basis 'ZZ' has returned
C14_Witness ==
    bell_pc = "returned" /\ bell_basis = <<"Z", "Z">> /\ Len(bell_qc) = 6

\* ------------------------------------------------------------------- layout
\* The keys of self.pos are element indices (int) and coupler labels (str);
\* the model tags them to keep the two kinds apart.
Element(n) == <<"int", n>>
Label(code) == <<"str", code>>

\* dict[key] = value
Put(dict, key, value) == (key :> value) @@ dict

\* the i-th iteration (from 0) of "for x in range(nx): for y in range(ny)"
IterX(i, ny) == i \div ny
IterY(i, ny) == i % ny

\* lines 399 and 405 and 412
Index(x, y, stride) == x + y * stride

\* line 419: the midpoint, in the coordinates of pos (four times the source's)
Midpoint(p, q) == <<(p[1] + q[1]) \div 2, (p[2] + q[2]) \div 2>>

Lx == device[1]
Ly == device[2]

\* line 374: the devices __init__ knows by name
Supported == {"ibmqx2", "ibmqx4", "ibmqx5"}

\* a name __init__ does not know
Unsupported == {"ibmqx3"}

\* lines 385 and 387-388: the positions of the elements of a named device
NamedPos(name) ==
    IF name \in {"ibmqx2", "ibmqx4"}
    THEN (Element(0) :> <<4, 4>>) @@ (Element(1) :> <<4, 0>>)
         @@ (Element(2) :> <<2, 2>>) @@ (Element(3) :> <<0, 0>>)
         @@ (Element(4) :> <<0, 4>>)
    ELSE [node \in {Element(n) : n \in 0..15} |->
             LET n == node[2]
             IN  IF n = 0 THEN <<0, 0>>
                 ELSE IF n <= 8 THEN <<4 * (n - 1), 4>>
                 ELSE <<4 * (16 - n), 0>>]

\* lines 376-378: backend.configuration of a named device.  The coupling map
\* is the backend's; the model draws it from chains [1,0], [2,1], ... over
\* the elements of the device.
Chain(k) == [i \in 1..k |-> <<i, i - 1>>]

Configurations(name) ==
    LET n_qubits == Cardinality(DOMAIN NamedPos(name))
    IN  {[n_qubits |-> n_qubits, coupling_map |-> Chain(k)] : k \in {1, n_qubits - 1}}

\* no method called yet
NoMethod == [op |-> "none"]

InitLayout ==
    /\ \/ /\ device_type \in {"list", "tuple"}
          /\ device \in (1..MaxL) \X (1..MaxL)
       \/ /\ device_type = "str"
          /\ device \in {<<name>> : name \in Supported \cup Unsupported}
    /\ lay_pc = "start"
    /\ lay_i = 0
    /\ char = 0
    /\ lay_num = 0
    /\ pairs = <<>>
    /\ pos = <<>>
    /\ backend_calls = 0
    /\ printed = ""
    /\ lay_call = NoMethod

\* line 374
IsSupported == device_type = "str" /\ device[1] \in Supported

\* lines 376-388: the branch of a named device
lay_named(configuration) ==
    /\ lay_pc = "start"
    /\ IsSupported
    /\ backend_calls' = backend_calls + 1
    /\ lay_num' = configuration.n_qubits
    /\ LET coupling == configuration.coupling_map
       IN  /\ pairs' = [pair \in {Label(65 + i - 1) : i \in 1..Len(coupling)} |->
                           coupling[pair[2] - 64]]
           /\ char' = 65 + Len(coupling)
    /\ pos' = NamedPos(device[1])
    /\ lay_pc' = "midpoints"
    /\ UNCHANGED <<device_type, device, lay_i, printed, lay_call>>

\* lines 414-419 with self.pairs set to an empty dict in the else branch: the
\* loop over it does nothing and __init__ returns the object
lay_reject_returns ==
    /\ lay_pc = "start"
    /\ ~IsSupported
    /\ device_type # "list"
    /\ printed' = "Error: Device not recognized."
    /\ lay_pc' = "done"
    /\ UNCHANGED <<device_type, device, lay_i, char, lay_num, pairs, pos,
                   backend_calls, lay_call>>

\* lines 414-418: neither a known name nor a list.  The branch prints its
\* message and falls through to the loop over self.pairs, an attribute that
\* was never set: AttributeError leaves __init__.
lay_reject ==
    /\ lay_pc = "start"
    /\ ~IsSupported
    /\ device_type # "list"
    /\ printed' = "Error: Device not recognized."
    /\ lay_pc' = "AttributeError"
    /\ UNCHANGED <<device_type, device, lay_i, char, lay_num, pairs, pos,
                   backend_calls, lay_call>>

\* lines 392-396
lay_begin ==
    /\ lay_pc = "start"
    /\ ~IsSupported
    /\ device_type = "list"
    /\ lay_num' = Lx * Ly
    /\ pairs' = <<>>
    /\ char' = 65
    /\ lay_pc' = "horizontal"
    /\ UNCHANGED <<device_type, device, lay_i, pos, backend_calls, printed, lay_call>>

\* lines 397-402: one iteration
lay_horizontal ==
    /\ lay_pc = "horizontal"
    /\ lay_i < (Lx - 1) * Ly
    /\ LET n == Index(IterX(lay_i, Ly), IterY(lay_i, Ly), Ly)
           m == n + 1
       IN  pairs' = Put(pairs, Label(char), <<n, m>>)
    /\ char' = char + 1
    /\ lay_i' = lay_i + 1
    /\ UNCHANGED <<device_type, device, lay_pc, lay_num, pos, backend_calls, printed,
                   lay_call>>

\* lines 403-408: one iteration
lay_vertical ==
    /\ lay_pc = "vertical"
    /\ lay_i < Lx * (Ly - 1)
    /\ LET n == Index(IterX(lay_i, Ly - 1), IterY(lay_i, Ly - 1), Ly)
           m == n + Ly
       IN  pairs' = Put(pairs, Label(char), <<n, m>>)
    /\ char' = char + 1
    /\ lay_i' = lay_i + 1
    /\ UNCHANGED <<device_type, device, lay_pc, lay_num, pos, backend_calls, printed,
                   lay_call>>

\* lines 409-413: one iteration
lay_positions ==
    /\ lay_pc = "positions"
    /\ lay_i < Lx * Ly
    /\ LET x == IterX(lay_i, Ly)
           y == IterY(lay_i, Ly)
       IN  pos' = Put(pos, Element(Index(x, y, Ly)), <<4 * x, 4 * y>>)
    /\ lay_i' = lay_i + 1
    /\ UNCHANGED <<device_type, device, lay_pc, char, lay_num, pairs, backend_calls,
                   printed, lay_call>>

\* lines 418-419: one iteration, the labels in the order they were added
lay_midpoints ==
    /\ lay_pc = "midpoints"
    /\ lay_i < Cardinality(DOMAIN pairs)
    /\ LET pair == Label(65 + lay_i)
       IN  pos' = Put(pos, pair, Midpoint(pos[Element(pairs[pair][1])],
                                          pos[Element(pairs[pair][2])]))
    /\ lay_i' = lay_i + 1
    /\ UNCHANGED <<device_type, device, lay_pc, char, lay_num, pairs, backend_calls,
                   printed, lay_call>>

\* the end of one loop of __init__ and the start of the next
LoopLength(pc) ==
    CASE pc = "horizontal" -> (Lx - 1) * Ly
      [] pc = "vertical" -> Lx * (Ly - 1)
      [] pc = "positions" -> Lx * Ly
      [] pc = "midpoints" -> Cardinality(DOMAIN pairs)

NextLoop(pc) ==
    CASE pc = "horizontal" -> "vertical"
      [] pc = "vertical" -> "positions"
      [] pc = "positions" -> "midpoints"
      [] pc = "midpoints" -> "done"

lay_loop_end ==
    /\ lay_pc \in {"horizontal", "vertical", "positions", "midpoints"}
    /\ lay_i = LoopLength(lay_pc)
    /\ lay_pc' = NextLoop(lay_pc)
    /\ lay_i' = 0
    /\ UNCHANGED <<device_type, device, char, lay_num, pairs, pos, backend_calls,
                   printed, lay_call>>

\* ---- calculate_probs
\* python's string[-n-1]
FromEnd(string, n) == string[Len(string) - n]

\* The keys of the raw counts the model passes in: the strings of length num
\* with no '1', with one '1', or with nothing but '1'.
Keys(num) ==
    {[i \in 1..num |-> IF i \in ones THEN 1 ELSE 0] :
        ones \in {{}, 1..num} \cup {{i} : i \in 1..num}}

\* The raw counts passed in, as the sequence of their items in the order of
\* the dict: one key or two, each with a count of 0..MaxCount.
RawStats(num) ==
    {<<<<key, count>>>> : key \in Keys(num), count \in 0..MaxCount}
    \cup {<<<<k[1], c[1]>>, <<k[2], c[2]>>>> :
            k \in {kk \in Keys(num) \X Keys(num) : kk[1] # kk[2]},
            c \in (0..MaxCount) \X (0..MaxCount)}

\* lines 423-425
Total(raw_stats) == Sum([i \in 1..Len(raw_stats) |-> raw_stats[i][2]])

\* lines 426-428: the normalized items, each mass the fraction <<count, Z>>
Normalized(raw_stats) ==
    [i \in 1..Len(raw_stats) |-> <<raw_stats[i][1], <<raw_stats[i][2], Total(raw_stats)>>>>]

\* lines 435-440 for one string: the exception it runs into, "" for none.
\* probs has the keys of self.pos only, and the string has num characters.
Raised(string) ==
    IF \E n \in 0..(lay_num - 1) :
          FromEnd(string, n) = 1 /\ Element(n) \notin DOMAIN pos
    THEN "KeyError"
    ELSE IF \E pair \in DOMAIN pairs : \E j \in 1..2 : pairs[pair][j] >= Len(string)
    THEN "IndexError"
    ELSE ""

\* the exception calculate_probs leaves with, "" for none
RECURSIVE FirstRaised(_)
FirstRaised(items) ==
    IF items = <<>> THEN ""
    ELSE IF Raised(Head(items)[1]) # "" THEN Raised(Head(items)[1])
    ELSE FirstRaised(Tail(items))

CalcRaised(raw_stats) ==
    IF Total(raw_stats) = 0 THEN "ZeroDivisionError" ELSE FirstRaised(raw_stats)

\* lines 436-437 and 439-440: whether the string adds its mass to the node
Adds(string, node) ==
    IF node[1] = "int"
    THEN node[2] < lay_num /\ FromEnd(string, node[2]) = 1
    ELSE FromEnd(string, pairs[node][1]) # FromEnd(string, pairs[node][2])

\* lines 430-442: the mapping returned, each value the fraction <<sum, Z>>
Probs(raw_stats) ==
    [node \in DOMAIN pos |->
        <<Sum([i \in 1..Len(raw_stats) |->
                 IF Adds(raw_stats[i][1], node) THEN raw_stats[i][2] ELSE 0]),
          Total(raw_stats)>>]

\* __init__ has returned the object, and no method was called on it yet
Constructed == lay_pc = "done" /\ lay_call = NoMethod

\* lines 421-442, on a constructed layout
calculate_probs(raw_stats) ==
    /\ Constructed
    /\ lay_call' =
          IF CalcRaised(raw_stats) # ""
          THEN [op |-> "calculate_probs", raw_stats |-> raw_stats,
                raised |-> CalcRaised(raw_stats)]
          ELSE [op |-> "calculate_probs", raw_stats |-> raw_stats, raised |-> "",
                stats |-> Normalized(raw_stats), probs |-> Probs(raw_stats)]
    /\ UNCHANGED <<device_type, device, lay_pc, lay_i, char, lay_num, pairs, pos,
                   backend_calls, printed>>

\* ---- plot
\* Attribute values.  A label is <<"percent", k>> for the text of the number
\* k, <<"", 0>> for the empty text, the node itself where the label is the
\* node, or <<"given", 0>> for the caller's; a color is <<"rgb", r, g, b, den>>
\* for the tuple (r/den, g/den, b/den), <<"grey", 0, 0, 0, 1>> for 'grey' or
\* <<"given", 0, 0, 0, 1>> for the caller's; a size is a number.
Given ==
    [labels |-> <<"given", 0>>, colors |-> <<"given", 0, 0, 0, 1>>, sizes |-> 500]

\* lines 446-451: the nodes of G
Nodes ==
    DOMAIN pairs \cup {Element(pairs[pair][j]) : pair \in DOMAIN pairs, j \in 1..2}

\* the probs passed to plot: none, or what calculate_probs returns for one
\* string counted once, or for the strings of no '1' and all '1' counted 1 and
\* MaxCount times; and each of these with the first coupler marked unused by
\* a value above 1
ProbsArgs ==
    LET raws == {raw_stats \in
                    {<<<<key, 1>>>> : key \in Keys(lay_num)}
                    \cup {<<<<[i \in 1..lay_num |-> 0], 1>>,
                            <<[i \in 1..lay_num |-> 1], MaxCount>>>>} :
                    CalcRaised(raw_stats) = ""}
        returned == {Probs(raw_stats) : raw_stats \in raws}
    IN  {<<>>} \cup returned
        \cup {[probs \in returned |-> [probs EXCEPT ![Label(65)] = <<2, 1>>]][pr] :
                pr \in {probs \in returned : Label(65) \in DOMAIN probs}}

\* the labels, colors or sizes passed to plot: none, the first coupler only,
\* or every node of G
Overrides(attr) ==
    {[node \in named |-> Given[attr]] :
        named \in {{}, Nodes \cap {Label(65)}, Nodes}}

\* "%.0f" % (100 * p) as a number: the nearest integer, a tie to the even one
Percent(p) ==
    LET floor == (100 * p[1]) \div p[2]
        twice == 2 * (100 * p[1] - floor * p[2])
    IN  IF twice > p[2] \/ (twice = p[2] /\ floor % 2 = 1) THEN floor + 1 ELSE floor

\* lines 463-479: the attributes of a node derived from probs
FromProbs(attr, node, probs) ==
    LET pr == probs[node]
    IN  IF pr[1] > pr[2]
        THEN [labels |-> <<"", 0>>, colors |-> <<"grey", 0, 0, 0, 1>>,
              sizes |-> 3000][attr]
        ELSE [labels |-> <<"percent", Percent(pr)>>,
              colors |-> <<"rgb", pr[2] - pr[1], 0, pr[1], pr[2]>>,
              sizes |-> IF node[1] # "str"
                        THEN (IF Percent(pr) = 0 THEN 3000 ELSE 4000)
                        ELSE (IF Percent(pr) = 0 THEN 800 ELSE 1150)][attr]

\* lines 490-506: the attributes of a node derived from the node itself
FromNode(attr, node) ==
    [labels |-> node,
     colors |-> IF node[1] = "int"
                THEN <<"rgb", node[2], 0, lay_num - node[2], lay_num>>
                ELSE <<"rgb", 0, 0, 0, 1>>,
     sizes |-> IF node[1] # "str" THEN 3000 ELSE 750][attr]

\* lines 453-506: the labels, colors or sizes the method ends up with
Attributes(attr, probs, given) ==
    IF probs # <<>>
    THEN [node \in Nodes \cup DOMAIN given |->
             IF node \in DOMAIN given THEN given[node]
             ELSE FromProbs(attr, node, probs)]
    ELSE IF given = <<>>
    THEN [node \in Nodes |-> FromNode(attr, node)]
    ELSE given

\* lines 463 and 512-513: the exception plot leaves with, "" for none
PlotRaised(probs, labels, colors, sizes) ==
    IF probs # <<>> /\ \E node \in Nodes : node \notin DOMAIN probs THEN "KeyError"
    ELSE IF \E node \in Nodes :
               \/ node \notin DOMAIN Attributes("colors", probs, colors)
               \/ node \notin DOMAIN Attributes("sizes", probs, sizes)
    THEN "KeyError"
    ELSE ""

\* lines 444-513, on a constructed layout: up to the call of nx.draw
plot(probs, labels, colors, sizes) ==
    /\ Constructed
    /\ lay_call' =
          LET args == [probs |-> probs, labels |-> labels, colors |-> colors,
                       sizes |-> sizes]
          IN  IF PlotRaised(probs, labels, colors, sizes) # ""
              THEN [op |-> "plot", args |-> args,
                    raised |-> PlotRaised(probs, labels, colors, sizes)]
              ELSE [op |-> "plot", args |-> args, raised |-> "",
                    labels |-> Attributes("labels", probs, labels),
                    colors |-> Attributes("colors", probs, colors),
                    sizes |-> Attributes("sizes", probs, sizes)]
    /\ UNCHANGED <<device_type, device, lay_pc, lay_i, char, lay_num, pairs, pos,
                   backend_calls, printed>>

NextLayout ==
    \/ \E probs \in (IF Constructed THEN ProbsArgs ELSE {}) :
          \E labels \in Overrides("labels"), colors \in Overrides("colors"),
             sizes \in Overrides("sizes") :
             plot(probs, labels, colors, sizes)
             /\ UNCHANGED <<sp_vars, ladder_vars, twobit_vars, bell_vars>>
    \/ \E configuration \in (IF IsSupported THEN Configurations(device[1]) ELSE {}) :
          lay_named(configuration) /\ UNCHANGED <<sp_vars, ladder_vars, twobit_vars, bell_vars>>
    \/ lay_reject /\ UNCHANGED <<sp_vars, ladder_vars, twobit_vars, bell_vars>>
    \/ \E raw_stats \in (IF Constructed THEN RawStats(lay_num) ELSE {}) :
          calculate_probs(raw_stats) /\ UNCHANGED <<sp_vars, ladder_vars, twobit_vars, bell_vars>>
    \/ lay_begin /\ UNCHANGED <<sp_vars, ladder_vars, twobit_vars, bell_vars>>
    \/ lay_horizontal /\ UNCHANGED <<sp_vars, ladder_vars, twobit_vars, bell_vars>>
    \/ lay_vertical /\ UNCHANGED <<sp_vars, ladder_vars, twobit_vars, bell_vars>>
    \/ lay_positions /\ UNCHANGED <<sp_vars, ladder_vars, twobit_vars, bell_vars>>
    \/ lay_midpoints /\ UNCHANGED <<sp_vars, ladder_vars, twobit_vars, bell_vars>>
    \/ lay_loop_end /\ UNCHANGED <<sp_vars, ladder_vars, twobit_vars, bell_vars>>

StartLayout == InitLayout /\ SuperposerIdle /\ LadderIdle /\ TwobitIdle /\ BellIdle

SpecLayout == StartLayout /\ [][NextLayout]_vars

\* --------------------------------------------------------- claims on layout
\* C5: a constructed grid layout has Lx*(Ly-1) + Ly*(Lx-1) couplers, and each
\* coupler names two different element indices of 0..Lx*Ly-1 that both have a
\* position.
C5_GridCouplers ==
    (lay_pc = "done" /\ device_type = "list") =>
        /\ Cardinality(DOMAIN pairs) = Lx * (Ly - 1) + Ly * (Lx - 1)
        /\ \A pair \in DOMAIN pairs :
              /\ pairs[pair][1] # pairs[pair][2]
              /\ \A j \in 1..2 :
                    /\ pairs[pair][j] \in 0..(Lx * Ly - 1)
                    /\ Element(pairs[pair][j]) \in DOMAIN pos

\* C11: for any non-empty raw counts (all of them zero too), calculate_probs
\* on a constructed layout returns a value in [0,1] for every element and
\* every coupler, and the normalized masses it sums over total exactly 1.
C11_ProbsInUnit ==
    lay_call.op = "calculate_probs" =>
        /\ lay_call.raised = ""
        /\ \A node \in DOMAIN pos :
              /\ node \in DOMAIN lay_call.probs
              /\ 0 <= lay_call.probs[node][1]
              /\ lay_call.probs[node][1] <= lay_call.probs[node][2]
        /\ LET masses == [i \in 1..Len(lay_call.stats) |-> lay_call.stats[i][2][1]]
           IN  Sum(masses) = lay_call.stats[1][2][2]

\* line 374 and line 390 both fail on the argument of layout()
Malformed == device_type # "list" /\ ~IsSupported

\* C12: on a device name that is not one of the three known, or on a grid
\* given as a tuple, __init__ makes no backend call and never returns an
\* object; its first step prints the error message and leaves by an exception,
\* with nothing of the layout built and no method callable.
C12_Rejected ==
    Malformed =>
        /\ backend_calls = 0
        /\ ~Constructed
        /\ lay_call = NoMethod
        /\ lay_pc \in {"start", "AttributeError"}
        /\ lay_pc = "AttributeError" =>
              /\ printed = "Error: Device not recognized."
              /\ lay_num = 0 /\ pairs = <<>> /\ pos = <<>>

\* __init__ has run on a grid given as a tuple
C12_Witness ==
    Malformed /\ device_type = "tuple" /\ lay_pc = "AttributeError"

\* the attribute of a node that C13 describes: the caller's where the caller
\* named the node, else the one derived from probs or from the node
Expected(attr, node, args) ==
    IF node \in DOMAIN args[attr] THEN args[attr][node]
    ELSE IF args.probs # <<>> THEN FromProbs(attr, node, args.probs)
    ELSE FromNode(attr, node)

\* C13: plot gives every node of the graph, for its label, color and size, the
\* caller's value where the caller's mapping names the node and the derived
\* default where it does not, with probs given or empty, and with the mapping
\* empty, naming some nodes or naming all.
C13_PerNode ==
    lay_call.op = "plot" =>
        /\ lay_call.raised = ""
        /\ \A node \in Nodes :
              /\ node \in DOMAIN lay_call.labels
              /\ lay_call.labels[node] = Expected("labels", node, lay_call.args)
              /\ lay_call.colors[node] = Expected("colors", node, lay_call.args)
              /\ lay_call.sizes[node] = Expected("sizes", node, lay_call.args)

====
